---- MODULE Spec2Model ----
(***************************************************************************)
(* A model of hex.py: the interactive chat loop (chat), the HTTP transport *)
(* (call_claude) and the tool executor (execute_tool).                     *)
(*                                                                         *)
(* Python strings are sequences of one-character strings, so that slicing, *)
(* concatenation, strip(), lower() and newline translation are computed on *)
(* characters.  A message whose content is a str is [role, text]; a        *)
(* message whose content is a list of blocks is [role, blocks].            *)
(***************************************************************************)
EXTENDS Naturals, Sequences, FiniteSets, TLC

(***************************************************************************)
(* Bounds of the model.                                                    *)
(***************************************************************************)
\* transport calls the session may make
MaxCalls == 3
\* tool_use blocks the backend may send during the session
MaxToolUses == 2
\* length of the longest standard output of a command
LongLen == 20000

(***************************************************************************)
(* Program constants.                                                      *)
(***************************************************************************)
\* result[:10000]
MaxResultLen == 10000
\* subprocess.run(..., timeout=60)
CommandTimeout == 60
\* resp.status_code != 200
StatusOK == 200

(***************************************************************************)
(* Strings.                                                                *)
(***************************************************************************)
Rep(c, n) == [i \in 1..n |-> c]

Last(s) == s[Len(s)]

Front(s) == SubSeq(s, 1, Len(s) - 1)

IsPrefix(s, t) == Len(s) <= Len(t) /\ SubSeq(t, 1, Len(s)) = s

\* s[:n] for n >= 0
Slice(s, n) == SubSeq(s, 1, IF Len(s) < n THEN Len(s) ELSE n)

DigitChars == <<"0", "1", "2", "3", "4", "5", "6", "7", "8", "9">>

\* str(n) for an int n >= 0
RECURSIVE Decimal(_)
Decimal(n) ==
    IF n < 10 THEN <<DigitChars[n + 1]>>
    ELSE Decimal(n \div 10) \o <<DigitChars[(n % 10) + 1]>>

Whitespace == {" ", "\t", "\n", "\r"}

RECURSIVE LStrip(_)
LStrip(s) ==
    IF s # <<>> /\ Head(s) \in Whitespace THEN LStrip(Tail(s)) ELSE s

RECURSIVE RStrip(_)
RStrip(s) ==
    IF s # <<>> /\ Last(s) \in Whitespace THEN RStrip(Front(s)) ELSE s

\* str.strip()
Strip(s) == RStrip(LStrip(s))

UpperChars == <<"A", "B", "C", "D", "E", "F", "G", "H", "I", "J", "K", "L", "M",
                "N", "O", "P", "Q", "R", "S", "T", "U", "V", "W", "X", "Y", "Z">>

LowerChars == <<"a", "b", "c", "d", "e", "f", "g", "h", "i", "j", "k", "l", "m",
                "n", "o", "p", "q", "r", "s", "t", "u", "v", "w", "x", "y", "z">>

LowerChar(c) ==
    IF \E i \in 1..Len(UpperChars) : UpperChars[i] = c
    THEN LowerChars[CHOOSE i \in 1..Len(UpperChars) : UpperChars[i] = c]
    ELSE c

\* a comparison that leaves the letter case alone
LowerNone(s) == s

\* str.lower()
Lower(s) == [i \in 1..Len(s) |-> LowerChar(s[i])]

(***************************************************************************)
(* String literals of the program, of the exceptions it catches and of the *)
(* tool registry.                                                          *)
(***************************************************************************)
RunCommandName == <<"r", "u", "n", "_", "c", "o", "m", "m", "a", "n", "d">>

ReadFileName == <<"r", "e", "a", "d", "_", "f", "i", "l", "e">>

WriteFileName == <<"w", "r", "i", "t", "e", "_", "f", "i", "l", "e">>

\* TOOLS: the names of the registry
TOOLS == <<RunCommandName, ReadFileName, WriteFileName>>

ErrorPrefix == <<"E", "r", "r", "o", "r", ":", " ">>

NoOutputText == <<"(", "n", "o", " ", "o", "u", "t", "p", "u", "t", ")">>

StderrLabel == <<"\n", "S", "T", "D", "E", "R", "R", ":", " ">>

ExitCodeLabel == <<"\n", "[", "e", "x", "i", "t", " ", "c", "o", "d", "e", ":", " ">>

SudoPrefix == <<"s", "u", "d", "o", " ">>

UnknownToolPrefix == <<"U", "n", "k", "n", "o", "w", "n", " ", "t", "o", "o", "l", ":", " ">>

WroteText(n, path) ==
    <<"W", "r", "o", "t", "e", " ">> \o Decimal(n)
        \o <<" ", "b", "y", "t", "e", "s", " ", "t", "o", " ">> \o path

ExitWords == {<<"e", "x", "i", "t">>, <<"q", "u", "i", "t">>, <<"q">>}

\* str(KeyError(key)) is repr(key)
KeyErrorText(key) == <<"'">> \o key \o <<"'">>

CommandKey == <<"c", "o", "m", "m", "a", "n", "d">>

PathKey == <<"p", "a", "t", "h">>

ContentKey == <<"c", "o", "n", "t", "e", "n", "t">>

\* str(FileNotFoundError(2, "No such file or directory", path))
NoSuchFileText(path) ==
    <<"[", "E", "r", "r", "n", "o", " ", "2", "]", " ", "N", "o", " ", "s", "u", "c",
      "h", " ", "f", "i", "l", "e", " ", "o", "r", " ", "d", "i", "r", "e", "c", "t",
      "o", "r", "y", ":", " ", "'">> \o path \o <<"'">>

\* str(PermissionError(13, "Permission denied", path))
PermissionDeniedText(path) ==
    <<"[", "E", "r", "r", "n", "o", " ", "1", "3", "]", " ", "P", "e", "r", "m", "i",
      "s", "s", "i", "o", "n", " ", "d", "e", "n", "i", "e", "d", ":", " ", "'">>
        \o path \o <<"'">>

\* str(subprocess.TimeoutExpired(cmd, timeout))
TimedOutText(cmd) ==
    <<"C", "o", "m", "m", "a", "n", "d", " ", "'">> \o cmd
        \o <<"'", " ", "t", "i", "m", "e", "d", " ", "o", "u", "t", " ", "a", "f", "t",
             "e", "r", " ">> \o Decimal(CommandTimeout)
        \o <<" ", "s", "e", "c", "o", "n", "d", "s">>

(***************************************************************************)
(* The host's filesystem: files maps each existing file to its data, dirs  *)
(* is the set of existing directories.                                     *)
(***************************************************************************)
HomeDir == <<"/", "h">>

RootDir == <<"/">>

CurDir == <<".">>

\* Path(p).expanduser(): a leading "~" component becomes the home directory
expanduser(p) ==
    IF p # <<>> /\ p[1] = "~" /\ (Len(p) = 1 \/ p[2] = "/")
    THEN HomeDir \o Tail(p)
    ELSE p

RECURSIVE DropName(_)
DropName(p) ==
    IF p = <<>> \/ Last(p) = "/" THEN p ELSE DropName(Front(p))

\* Path.parent
Parent(p) ==
    LET d == DropName(p)
    IN  IF d = <<>> THEN CurDir
        ELSE IF Len(d) = 1 THEN RootDir
        ELSE Front(d)

RECURSIVE Ancestors(_)
Ancestors(d) ==
    IF d = RootDir \/ d = CurDir THEN {d}
    ELSE UNION {{d} \cup Ancestors(p) : p \in {Parent(d)}}

\* Path.mkdir(parents=True, exist_ok=True)
Mkdir(dirs, d) == dirs \cup Ancestors(d)

\* os.linesep of the host
linesep == <<"\n">>

\* text-mode write with newline=None: "\n" is written as os.linesep
RECURSIVE TranslateWrite(_)
TranslateWrite(s) ==
    IF s = <<>> THEN <<>>
    ELSE (IF Head(s) = "\n" THEN linesep ELSE <<Head(s)>>) \o TranslateWrite(Tail(s))

\* text-mode read with newline=None (universal newlines): "\r\n" and "\r"
\* are returned as "\n"
RECURSIVE TranslateRead(_)
TranslateRead(s) ==
    IF s = <<>> THEN <<>>
    ELSE IF Head(s) = "\r"
         THEN <<"\n">> \o TranslateRead(IF Len(s) >= 2 /\ s[2] = "\n"
                                         THEN SubSeq(s, 3, Len(s))
                                         ELSE Tail(s))
         ELSE <<Head(s)>> \o TranslateRead(Tail(s))

\* Path.write_text(data)
WriteText(files, path, data) ==
    [p \in DOMAIN files \cup {path} |->
        IF p = path THEN TranslateWrite(data) ELSE files[p]]

\* line 174: the bytes write_text stores for a character (UTF-8)
Utf8Len(c) == IF c = "é" THEN 2 ELSE 1

\* line 174: the bytes write_text stores for a text
Utf8Bytes(s) ==
    LET n[i \in 0..Len(s)] == IF i = 0 THEN 0 ELSE n[i - 1] + Utf8Len(s[i])
    IN  n[Len(s)]

\* Path.read_text()
ReadText(files, path) == TranslateRead(files[path])

(***************************************************************************)
(* execute_tool.  env is what the host does with the request: for a        *)
(* command the completed process, a timeout or a keyboard interrupt; for a *)
(* file operation whether the host permits it.                             *)
(***************************************************************************)
Has(input, key) == key \in DOMAIN input

Returned(value, files, dirs) ==
    [raised |-> "none", caught |-> "none", value |-> value,
     files |-> files, dirs |-> dirs]

Raised(exc, text, files, dirs) ==
    [raised |-> exc, caught |-> "none", value |-> text,
     files |-> files, dirs |-> dirs]

\* a result text without the sentinel for empty output (return output)
CommandOutputPlain(stdout, stderr, returncode) ==
    LET o1 == IF stderr # <<>> THEN stdout \o StderrLabel \o stderr ELSE stdout
    IN  IF returncode # 0
        THEN o1 \o ExitCodeLabel \o Decimal(returncode) \o <<"]">>
        ELSE o1

\* lines 160-165: the result text of a completed process
CommandOutput(stdout, stderr, returncode) ==
    LET o1 == IF stderr # <<>> THEN stdout \o StderrLabel \o stderr ELSE stdout
        o2 == IF returncode # 0
              THEN o1 \o ExitCodeLabel \o Decimal(returncode) \o <<"]">>
              ELSE o1
    IN  IF o2 # <<>> THEN o2 ELSE NoOutputText

\* lines 150-165
RunCommand(input, env, files, dirs) ==
    IF ~Has(input, "command")
    THEN Raised("KeyError", KeyErrorText(CommandKey), files, dirs)
    ELSE LET cmd == IF Has(input, "sudo") /\ input.sudo
                    THEN SudoPrefix \o input.command
                    ELSE input.command
         IN  CASE env.kind = "timeout" ->
                    Raised("TimeoutExpired", TimedOutText(cmd), files, dirs)
               [] env.kind = "interrupt" ->
                    Raised("KeyboardInterrupt", <<>>, files, dirs)
               [] OTHER ->
                    Returned(CommandOutput(env.stdout, env.stderr, env.returncode),
                             files, dirs)

\* lines 168-169
ReadFile(input, env, files, dirs) ==
    IF ~Has(input, "path")
    THEN Raised("KeyError", KeyErrorText(PathKey), files, dirs)
    ELSE LET path == expanduser(input.path)
         IN  IF env.kind = "denied"
             THEN Raised("PermissionError", PermissionDeniedText(path), files, dirs)
             ELSE IF path \notin DOMAIN files
             THEN Raised("FileNotFoundError", NoSuchFileText(path), files, dirs)
             ELSE Returned(ReadText(files, path), files, dirs)

\* a write_file that falls back on a default path (input.get("path", "out"))
WriteFileDefaultPath(input, env, files, dirs) ==
    LET path == expanduser(IF Has(input, "path") THEN input.path
                           ELSE <<"o", "u", "t">>)
        made == Mkdir(dirs, Parent(path))
    IN  IF ~Has(input, "content")
        THEN Raised("KeyError", KeyErrorText(ContentKey), files, made)
        ELSE IF env.kind = "denied"
        THEN Raised("PermissionError", PermissionDeniedText(path), files, made)
        ELSE Returned(WroteText(Len(input.content), path),
                      WriteText(files, path, input.content), made)

\* lines 172-175
WriteFile(input, env, files, dirs) ==
    IF ~Has(input, "path")
    THEN Raised("KeyError", KeyErrorText(PathKey), files, dirs)
    ELSE LET path == expanduser(input.path)
             made == Mkdir(dirs, Parent(path))
         IN  IF ~Has(input, "content")
             THEN Raised("KeyError", KeyErrorText(ContentKey), files, made)
             ELSE IF env.kind = "denied"
             THEN Raised("PermissionError", PermissionDeniedText(path), files, made)
             ELSE Returned(WroteText(Len(input.content), path),
                           WriteText(files, path, input.content), made)

\* a dispatch that hands every name it does not know to the shell
ToolBodyShellDefault(name, input, env, files, dirs) ==
    IF name = ReadFileName THEN ReadFile(input, env, files, dirs)
    ELSE IF name = WriteFileName THEN WriteFile(input, env, files, dirs)
    ELSE RunCommand(input, env, files, dirs)

\* lines 149-178: the body of the try statement
ToolBody(name, input, env, files, dirs) ==
    IF name = RunCommandName THEN RunCommand(input, env, files, dirs)
    ELSE IF name = ReadFileName THEN ReadFile(input, env, files, dirs)
    ELSE IF name = WriteFileName THEN WriteFile(input, env, files, dirs)
    ELSE Returned(UnknownToolPrefix \o name, files, dirs)

\* the exception classes of the model that derive from Exception
ExceptionClasses ==
    {"KeyError", "TimeoutExpired", "PermissionError", "FileNotFoundError"}

\* an except clause that names OSError only
CaughtOSError(exc) == exc \in {"PermissionError", "FileNotFoundError"}

\* an except clause that names OSError and KeyError only
CaughtButTimeout(exc) ==
    exc \in {"PermissionError", "FileNotFoundError", "KeyError"}

\* line 180: except Exception
CaughtByExcept(exc) == exc \in ExceptionClasses

\* lines 146-181: raised names the exception that leaves execute_tool,
\* caught the one its except clause turned into text
execute_tool(name, input, env, files, dirs) ==
    LET body == ToolBody(name, input, env, files, dirs)
    IN  IF body.raised # "none" /\ CaughtByExcept(body.raised)
        THEN [raised |-> "none", caught |-> body.raised,
              value |-> ErrorPrefix \o body.value,
              files |-> body.files, dirs |-> body.dirs]
        ELSE body

(***************************************************************************)
(* Messages and content blocks.                                            *)
(***************************************************************************)
TextBlock(text) == [type |-> "text", text |-> text]

ToolUseBlock(id, name, input) ==
    [type |-> "tool_use", id |-> id, name |-> name, input |-> input]

UserText(text) == [role |-> "user", text |-> text]

\* a message builder that files tool results under a role of their own
BlockMessageToolRole(role, blocks) ==
    [role |-> IF role = "user" THEN "tool" ELSE role, blocks |-> blocks]

BlockMessage(role, blocks) == [role |-> role, blocks |-> blocks]

IsBlockMessage(m) == "blocks" \in DOMAIN m

\* a tool result stored whole
TruncateNone(result) == result

\* line 262: result[:10000]
Truncate(result) == Slice(result, MaxResultLen)

\* lines 259-263
ToolResultBlock(tool, result) ==
    [type |-> "tool_result", tool_use_id |-> tool.id, content |-> Truncate(result)]

IsToolUse(block) == block.type = "tool_use"

\* a loop that never collects a tool_use block
ToolCallsNone(content) == SelectSeq(content, LAMBDA block : FALSE)

\* a loop that keeps only the last tool_use block (tool_calls = [block])
ToolCallsLastOnly(content) ==
    LET calls == SelectSeq(content, IsToolUse)
    IN  IF calls = <<>> THEN calls ELSE <<Last(calls)>>

\* lines 235-241: tool_calls, the tool_use blocks of the reply in their order
ToolCalls(content) == SelectSeq(content, IsToolUse)

\* a history that keeps a trailing window of two messages
AppendMessageWindowed(msgs, m) ==
    LET all == Append(msgs, m)
    IN  IF Len(all) > 2 THEN SubSeq(all, Len(all) - 1, Len(all)) ELSE all

\* lines 227, 249, 253, 265: messages.append
AppendMessage(msgs, m) == Append(msgs, m)

\* a test that also ends the turn on a single tool call
NoToolCallsOrOne(calls) == Len(calls) <= 1

\* line 248: if not tool_calls
NoToolCalls(calls) == calls = <<>>

\* a for loop that walks tool_calls from its end
NextToolFromEnd(calls, k) == calls[Len(calls) - k]

\* line 256: the tool the for loop runs after k results are in
NextTool(calls, k) == calls[k + 1]

ToolOp(tool) == [op |-> "tool", id |-> tool.id]

\* a loop that starts every remaining tool of the reply at once
DispatchAll(calls, k) == {ToolOp(calls[j]) : j \in k..Len(calls)}

\* lines 256-258: the tool executions outstanding once the for loop has
\* called execute_tool for the k-th tool of the reply
Dispatch(calls, k) == {ToolOp(calls[k])}

\* line 231
Transport == {[op |-> "transport"]}

\* lines 188-201: the prompt is a text built from the detected system
build_system_prompt(system_info) ==
    <<"Y", "o", "u", " ", "a", "r", "e", " ", "H", "e", "x">> \o system_info

\* the system description main() detects once before it calls chat
SystemInfo == <<" ", "L", "i", "n", "u", "x">>

\* line 207
system_prompt == build_system_prompt(SystemInfo)

\* line 277
ModelName == "claude-sonnet-4-20250514"

\* line 278
MaxTokens == 4096

\* a request that carries only the last two messages of the history
PayloadWindowed(prompt, msgs) ==
    [model |-> ModelName, max_tokens |-> MaxTokens, system |-> prompt,
     messages |-> IF Len(msgs) > 2 THEN SubSeq(msgs, Len(msgs) - 1, Len(msgs))
                  ELSE msgs,
     tools |-> TOOLS]

\* lines 276-282: the request body call_claude posts
Payload(prompt, msgs) ==
    [model |-> ModelName, max_tokens |-> MaxTokens, system |-> prompt,
     messages |-> msgs, tools |-> TOOLS]

\* a status test that treats only 5xx answers as fatal
IsServerError(status_code) == status_code >= 500

\* line 291: resp.status_code != 200
IsFatalStatus(status_code) == status_code # StatusOK

(***************************************************************************)
(* The environment: what the operator types, what the backend replies and  *)
(* what the host does with a tool request.  Within one session the backend *)
(* keeps to one family of requests: shell commands on a host with short    *)
(* outputs, a command with long output, file operations, or the write of   *)
(* a text with a character outside ASCII.                                  *)
(***************************************************************************)
\* lines the operator may type at the prompt
InputLines ==
    {<<"h", "i">>, <<" ", "h", "i", " ">>, <<>>, <<" ", "\t">>,
     <<"e", "x", "i", "t">>, <<"Q", "u", "i", "t">>, <<" ", "Q">>}

ListCommand == <<"l", "s">>

YesCommand == <<"y", "e", "s">>

HomeFile == <<"~", "/", "d", "/", "f">>

PlainContent == <<"h", "i">>

CrLfContent == <<"a", "\r", "\n", "b">>

\* content with a character outside ASCII
AccentContent == <<"h", "é">>

FetchName == <<"f", "e", "t", "c", "h">>

EmptyInput == [k \in {} |-> <<>>]

Invocation(name, input) == [name |-> name, input |-> input]

ShellInvocations ==
    {Invocation(RunCommandName, [command |-> ListCommand]),
     Invocation(RunCommandName, [command |-> ListCommand, sudo |-> TRUE]),
     Invocation(RunCommandName, EmptyInput),
     Invocation(FetchName, EmptyInput)}

LongInvocations ==
    {Invocation(RunCommandName, [command |-> YesCommand])}

FileInvocations ==
    {Invocation(ReadFileName, [path |-> HomeFile]),
     Invocation(ReadFileName, EmptyInput),
     Invocation(WriteFileName, [path |-> HomeFile, content |-> PlainContent]),
     Invocation(WriteFileName, [path |-> HomeFile, content |-> CrLfContent]),
     Invocation(WriteFileName, [content |-> PlainContent])}

AccentInvocations ==
    {Invocation(WriteFileName, [path |-> HomeFile, content |-> AccentContent])}

Families ==
    {ShellInvocations, LongInvocations, FileInvocations, AccentInvocations}

ReplyText == <<"o", "k">>

InsertAt(s, j, x) == SubSeq(s, 1, j) \o <<x>> \o SubSeq(s, j + 1, Len(s))

\* the tool_use blocks of one reply; the backend numbers its requests
WithIds(ts, base) ==
    [i \in 1..Len(ts) |-> ToolUseBlock(base + i, ts[i].name, ts[i].input)]

\* the content lists the backend may reply with: a text block, or up to k
\* tool_use blocks of one of the families fs, alone or with a text block
\* before the last of them
Replies(fs, k, base) ==
    {<<TextBlock(ReplyText)>>} \cup
    UNION {
      UNION {
        UNION {
          LET us == WithIds(ts, base)
          IN  {us, InsertAt(us, n - 1, TextBlock(ReplyText))}
          : ts \in [1..n -> f]}
        : f \in fs}
      : n \in 1..k}

\* the HTTP responses: a 200 with a content list, or an error status
Responses(fs, k, base) ==
    {[status_code |-> StatusOK, json |-> [content |-> c]] : c \in Replies(fs, k, base)}
        \cup {[status_code |-> 429, json |-> [type |-> "error"]]}

Completed(stdout, stderr, returncode) ==
    [kind |-> "completed", stdout |-> stdout, stderr |-> stderr,
     returncode |-> returncode]

\* what the host may answer to a tool request: a command completes, runs
\* into the timeout or is interrupted from the keyboard (sudo without a
\* cached credential fails); a file operation is
\* permitted or denied
HostOutcomes(tool) ==
    IF tool.name = RunCommandName /\ Has(tool.input, "command")
    THEN IF tool.input.command = YesCommand
         THEN {Completed(Rep("y", MaxResultLen), <<>>, 0),
               Completed(Rep("y", LongLen), <<>>, 0)}
         ELSE IF Has(tool.input, "sudo")
         THEN {Completed(<<>>, <<"e">>, 1)}
         ELSE {Completed(<<>>, <<>>, 0), Completed(<<"o">>, <<>>, 0),
               Completed(<<"o">>, <<"e">>, 2), Completed(<<>>, <<"e">>, 0),
               Completed(<<>>, <<>>, 127),
               [kind |-> "timeout"], [kind |-> "interrupt"]}
    ELSE IF tool.name \in {ReadFileName, WriteFileName} /\ Has(tool.input, "path")
            /\ (tool.name = WriteFileName => Has(tool.input, "content"))
    THEN {[kind |-> "ok"], [kind |-> "denied"]}
    ELSE {[kind |-> "ok"]}

(***************************************************************************)
(* State.                                                                  *)
(***************************************************************************)
VARIABLES
    pc,            \* where chat() is: "input", "call", "tool", or how it ended
    messages,      \* the conversation history
    user_input,    \* the last line read, stripped
    tool_calls,    \* the tool_use blocks of the last reply
    tool_results,  \* the tool_result blocks gathered by the for loop
    files,         \* the host's files
    dirs,          \* the host's directories
    running,       \* the blocking operations that are outstanding
    events,        \* what the session did so far, in order
    fault,         \* the exception that ended the process, if any
    request,       \* the body of the last request posted to the backend
    read           \* how the last input() call ended

vars == <<pc, messages, user_input, tool_calls, tool_results, files, dirs,
          running, events, fault, request, read>>

Count(evs, ev) == Cardinality({i \in 1..Len(evs) : evs[i].ev = ev})

CallEvent == [ev |-> "call"]

TurnEvent == [ev |-> "turn"]

ResponseEvent(resp) ==
    [ev |-> "response", status_code |-> resp.status_code, json |-> resp.json]

ExecEvent(tool) == [ev |-> "exec", tool |-> tool]

DoneEvent(tool, env, r) ==
    [ev |-> "done", id |-> tool.id, host |-> env, caught |-> r.caught,
     result |-> r.value]

\* lines 206-212
Init ==
    /\ pc = "input"
    /\ messages = <<>>
    /\ user_input = <<>>
    /\ tool_calls = <<>>
    /\ tool_results = <<>>
    /\ files = [p \in {} |-> <<>>]
    /\ dirs = {RootDir, HomeDir}
    /\ running = {}
    /\ events = <<>>
    /\ fault = "none"
    /\ request = [k \in {} |-> <<>>]
    /\ read = "none"

(***************************************************************************)
(* chat: one action per blocking point of the loop.  Each action takes the *)
(* loop from the return of one blocking call to the start of the next.     *)
(***************************************************************************)
ToolUsesSent(msgs) ==
    LET n[i \in 0..Len(msgs)] ==
            IF i = 0 THEN 0
            ELSE n[i - 1] + (IF IsBlockMessage(msgs[i]) /\ msgs[i].role = "assistant"
                             THEN Len(ToolCalls(msgs[i].blocks))
                             ELSE 0)
    IN  n[Len(msgs)]

\* the tool_use blocks sent so far
SentToolUses(msgs) ==
    UNION {{msgs[i].blocks[j] : j \in {j \in 1..Len(msgs[i].blocks) :
                                          IsToolUse(msgs[i].blocks[j])}}
           : i \in {i \in 1..Len(msgs) : IsBlockMessage(msgs[i])
                                           /\ msgs[i].role = "assistant"}}

\* the families the backend may still draw from
OpenFamilies(msgs) ==
    {f \in Families : \A t \in SentToolUses(msgs) : Invocation(t.name, t.input) \in f}

\* lines 216-231: input() returns a line
ReadInput ==
    /\ pc = "input"
    /\ \E line \in InputLines :
         LET text == Strip(line)
         IN  /\ user_input' = text
             /\ read' = "line"
             /\ IF text = <<>>
                THEN /\ pc' = "input"
                     /\ UNCHANGED <<messages, running, events, request>>
                ELSE IF Lower(text) \in ExitWords
                THEN /\ pc' = "exit0"
                     /\ UNCHANGED <<messages, running, events, request>>
                ELSE /\ Count(events, "call") < MaxCalls
                     /\ messages' = AppendMessage(messages, UserText(text))
                     /\ request' = Payload(system_prompt, messages')
                     /\ events' = events \o <<TurnEvent, CallEvent>>
                     /\ running' = Transport
                     /\ pc' = "call"
    /\ UNCHANGED <<tool_calls, tool_results, files, dirs, fault>>

\* a read step without the try statement: the interrupt leaves chat
ReadInterruptedUncaught ==
    /\ pc = "input"
    /\ read' = "KeyboardInterrupt"
    /\ pc' = "uncaught"
    /\ fault' = "KeyboardInterrupt"
    /\ UNCHANGED <<messages, user_input, tool_calls, tool_results, files, dirs,
                   running, events, request>>

\* lines 217-219: input() raises EOFError or KeyboardInterrupt
ReadInterrupted ==
    /\ pc = "input"
    /\ \E exc \in {"EOFError", "KeyboardInterrupt"} : read' = exc
    /\ pc' = "exit0"
    /\ UNCHANGED <<messages, user_input, tool_calls, tool_results, files, dirs,
                   running, events, fault, request>>

\* lines 284-296 and 231-258: the POST returns a response
CallReturns ==
    /\ pc = "call"
    /\ \E resp \in Responses(OpenFamilies(messages),
                             IF Count(events, "call") < MaxCalls
                             THEN MaxToolUses - ToolUsesSent(messages)
                             ELSE 0,
                             ToolUsesSent(messages)) :
         LET got == Append(events, ResponseEvent(resp))
         IN  IF IsFatalStatus(resp.status_code)
             THEN /\ pc' = "exit1"
                  /\ fault' = fault
                  /\ running' = running \ Transport
                  /\ events' = got
                  /\ UNCHANGED <<messages, tool_calls, tool_results>>
             ELSE IF ~Has(resp.json, "content")
             THEN /\ pc' = "uncaught"
                  /\ fault' = "KeyError"
                  /\ running' = running \ Transport
                  /\ events' = got
                  /\ UNCHANGED <<messages, tool_calls, tool_results>>
             ELSE LET content == resp.json.content
                      calls == ToolCalls(content)
                  IN  /\ messages' = AppendMessage(messages,
                                                   BlockMessage("assistant", content))
                      /\ tool_calls' = calls
                      /\ fault' = fault
                      /\ IF NoToolCalls(calls)
                         THEN /\ pc' = "input"
                              /\ running' = running \ Transport
                              /\ events' = got
                              /\ UNCHANGED tool_results
                         ELSE /\ tool_results' = <<>>
                              /\ events' = Append(got, ExecEvent(NextTool(calls, 0)))
                              /\ running' = (running \ Transport) \cup Dispatch(calls, 1)
                              /\ pc' = "tool"
    /\ UNCHANGED <<user_input, files, dirs, request, read>>

\* lines 284-289: the POST raises (httpx.HTTPError) or is interrupted
CallRaises ==
    /\ pc = "call"
    /\ \E exc \in {"HTTPError", "KeyboardInterrupt"} : fault' = exc
    /\ pc' = "uncaught"
    /\ running' = {}
    /\ UNCHANGED <<messages, user_input, tool_calls, tool_results, files, dirs,
                   events, request, read>>

\* lines 256-265 and 231: execute_tool ends for the current tool
ToolReturns ==
    /\ pc = "tool"
    /\ LET tool == NextTool(tool_calls, Len(tool_results))
       IN  \E env \in HostOutcomes(tool) :
           \E r \in {execute_tool(tool.name, tool.input, env, files, dirs)} :
             LET results == Append(tool_results, ToolResultBlock(tool, r.value))
                 done == Append(events, DoneEvent(tool, env, r))
             IN  /\ files' = r.files
                 /\ dirs' = r.dirs
                 /\ IF r.raised # "none"
                    THEN /\ pc' = "uncaught"
                         /\ fault' = r.raised
                         /\ running' = {}
                         /\ UNCHANGED <<messages, tool_results, events, request>>
                    ELSE /\ fault' = fault
                         /\ tool_results' = results
                         /\ IF Len(results) < Len(tool_calls)
                            THEN /\ events' = Append(done,
                                        ExecEvent(NextTool(tool_calls, Len(results))))
                                 /\ running' = (running \ {ToolOp(tool)})
                                                  \cup Dispatch(tool_calls, Len(results) + 1)
                                 /\ pc' = "tool"
                                 /\ UNCHANGED <<messages, request>>
                            ELSE /\ messages' = AppendMessage(messages,
                                                    BlockMessage("user", results))
                                 /\ request' = Payload(system_prompt, messages')
                                 /\ events' = Append(done, CallEvent)
                                 /\ running' = (running \ {ToolOp(tool)}) \cup Transport
                                 /\ pc' = "call"
    /\ UNCHANGED <<user_input, tool_calls, read>>

Next ==
    \/ ReadInput
    \/ ReadInterrupted
    \/ CallReturns
    \/ CallRaises
    \/ ToolReturns

Spec == Init /\ [][Next]_vars

\* lines 231 and 258: the POST and execute_tool are blocking calls whose
\* return the loop waits for; every one of them that stays pending ends
FairSpec == Spec /\ WF_vars(CallReturns) /\ WF_vars(ToolReturns)

(***************************************************************************)
(* What the claims read off a state: the tool_use blocks of a content      *)
(* list, the tool_result blocks the loop holds, the turns of the session.  *)
(***************************************************************************)
IsUse(block) == block.type = "tool_use"

UsesIn(content) == SelectSeq(content, IsUse)

IsReply(e) == e.ev = "response" /\ e.status_code = StatusOK

IsToolReply(e) == IsReply(e) /\ UsesIn(e.json.content) # <<>>

IsFinalReply(e) == IsReply(e) /\ UsesIn(e.json.content) = <<>>

BlocksOf(seq) == {seq[j] : j \in 1..Len(seq)}

\* the tool_result blocks in the history and in the for loop's list
Stored ==
    UNION {BlocksOf(messages[i].blocks) :
             i \in {i \in 1..Len(messages) :
                      IsBlockMessage(messages[i]) /\ messages[i].role = "user"}}
        \cup BlocksOf(tool_results)

TurnStarts == {i \in 1..Len(events) : events[i].ev = "turn"}

TurnEnd(i) ==
    IF \E j \in TurnStarts : j > i
    THEN (CHOOSE j \in TurnStarts : j > i /\ \A k \in TurnStarts : k > i => j <= k) - 1
    ELSE Len(events)

TurnEvents(i) == SubSeq(events, i, TurnEnd(i))

TurnCompleted(i) == (\E j \in TurnStarts : j > i) \/ pc \in {"input", "exit0"}

(***************************************************************************)
(* C1: for every reply with N >= 1 tool_use blocks the loop calls          *)
(* execute_tool exactly N times, once per block and in the order of the    *)
(* blocks, and every call has returned before the next transport call:     *)
(* the events after the reply are exec, done for the first block, ...,     *)
(* exec, done for the N-th block, then the call; and execute_tool is       *)
(* called nowhere else.                                                    *)
(***************************************************************************)
C1_ToolsRunInOrderBeforeNextCall ==
    /\ \A i \in 1..Len(events) :
         IsToolReply(events[i]) =>
           LET uses == UsesIn(events[i].json.content)
               n == Len(uses)
           IN  \A j \in 1..(2 * n + 1) :
                 i + j <= Len(events) =>
                   LET e == events[i + j]
                   IN  IF j = 2 * n + 1 THEN e.ev = "call"
                       ELSE IF j % 2 = 1
                       THEN e.ev = "exec" /\ e.tool = uses[(j + 1) \div 2]
                       ELSE e.ev = "done" /\ e.id = uses[j \div 2].id
    /\ \A i \in 1..Len(events) :
         /\ events[i].ev = "exec" =>
              i > 1 /\ (IsToolReply(events[i - 1]) \/ events[i - 1].ev = "done")
         /\ events[i].ev = "call" =>
              i > 1 /\ events[i - 1].ev \in {"turn", "done"}

C1_Witness ==
    \E i \in 1..Len(events) :
       /\ IsToolReply(events[i])
       /\ Len(UsesIn(events[i].json.content)) >= 2
       /\ Len(events[i].json.content) > Len(UsesIn(events[i].json.content))
       /\ i + 5 <= Len(events)
       /\ events[i + 5].ev = "call"

(***************************************************************************)
(* C2: in every completed turn the number of transport calls is one more   *)
(* than the number of replies with tool requests, the turn ends with a     *)
(* tool-free reply (no execute_tool call after it), and a turn whose first *)
(* reply is tool-free made exactly one transport call.                     *)
(***************************************************************************)
C2_CallsPerTurn ==
    \A i \in TurnStarts :
       TurnCompleted(i) =>
         LET seg == TurnEvents(i)
             calls == Cardinality({k \in 1..Len(seg) : seg[k].ev = "call"})
             toolReplies == Cardinality({k \in 1..Len(seg) : IsToolReply(seg[k])})
         IN  /\ calls = toolReplies + 1
             /\ IsFinalReply(seg[Len(seg)])
             /\ (Len(seg) >= 3 /\ IsFinalReply(seg[3])) => (calls = 1 /\ Len(seg) = 3)

C2_Witness ==
    /\ pc = "input"
    /\ \E i \in TurnStarts, j \in TurnStarts :
          /\ i < j
          /\ Len(TurnEvents(i)) = 3
          /\ Cardinality({k \in 1..Len(TurnEvents(j)) : IsToolReply(TurnEvents(j)[k])}) = 1

(***************************************************************************)
(* C3: every user message made of blocks follows an assistant message and  *)
(* holds one tool_result per tool_use block of that message, in the same   *)
(* order and with the tool_use block's id; the results the for loop has    *)
(* gathered so far answer the first tool_use blocks of the last reply.     *)
(***************************************************************************)
C3_ResultsAnswerRequests ==
    /\ \A i \in 1..Len(messages) :
         (IsBlockMessage(messages[i]) /\ messages[i].role = "user") =>
           /\ i > 1
           /\ IsBlockMessage(messages[i - 1])
           /\ messages[i - 1].role = "assistant"
           /\ LET uses == UsesIn(messages[i - 1].blocks)
                  res == messages[i].blocks
              IN  /\ Len(res) = Len(uses)
                  /\ \A j \in 1..Len(res) :
                       /\ res[j].type = "tool_result"
                       /\ res[j].tool_use_id = uses[j].id
    /\ pc = "tool" =>
         LET uses == UsesIn(Last(messages).blocks)
         IN  /\ Len(tool_results) < Len(uses)
             /\ \A j \in 1..Len(tool_results) : tool_results[j].tool_use_id = uses[j].id

C3_Witness ==
    \E i \in 1..Len(messages) :
       /\ IsBlockMessage(messages[i])
       /\ messages[i].role = "user"
       /\ Len(messages[i].blocks) = 2
       /\ Len(messages[i - 1].blocks) = 3


(***************************************************************************)
(* The execute_tool calls that ended in a failure of the tool: the except  *)
(* clause turned an exception into text, or the command left a non-zero    *)
(* exit code.                                                              *)
(***************************************************************************)
Dones == {i \in 1..Len(events) : events[i].ev = "done"}

IsFailure(d) ==
    \/ d.caught # "none"
    \/ d.host.kind = "completed" /\ d.host.returncode # 0

StoredFor(id) == {b \in Stored : b.tool_use_id = id}

(***************************************************************************)
(* C4: execute_tool never lets a failure of the tool (missing file,        *)
(* non-zero exit, permission denial, timeout, malformed input) leave it as *)
(* an exception: no such exception is ever the fault that ends the         *)
(* process; a call whose tool failed returns a string, which for a caught  *)
(* exception starts with "Error: " followed by the exception's text; that  *)
(* string is the content of the tool_result stored for the request; and    *)
(* the loop goes on to the next tool or to the next transport call.        *)
(***************************************************************************)
C4_ToolFailuresBecomeText ==
    /\ fault \notin ExceptionClasses
    /\ \A i \in Dones :
         LET d == events[i]
         IN  /\ d.host.kind \in {"timeout", "denied"} => d.caught # "none"
             /\ d.caught # "none" =>
                  /\ IsPrefix(ErrorPrefix, d.result)
                  /\ Len(d.result) > Len(ErrorPrefix)
             /\ IsFailure(d) =>
                  /\ StoredFor(d.id) # {}
                  /\ \A b \in StoredFor(d.id) : b.content = d.result
                  /\ i < Len(events)
                  /\ events[i + 1].ev \in {"exec", "call"}

\* a missing file and a permission denial in one reply, both answered, and
\* the next transport call under way
C4_Witness ==
    /\ pc = "call"
    /\ \E i \in Dones : events[i].caught = "FileNotFoundError"
    /\ \E i \in Dones : events[i].caught = "PermissionError"

(***************************************************************************)
(* C5: the content of every stored tool_result is at most 10,000           *)
(* characters long; it is the string execute_tool returned when that       *)
(* string has at most 10,000 characters, and otherwise exactly its first   *)
(* 10,000 characters.  Every stored tool_result comes from an execute_tool *)
(* call and every returned call has its tool_result stored.                *)
(***************************************************************************)
C5_StoredResultsTruncated ==
    /\ \A b \in Stored :
         /\ b.type = "tool_result"
         /\ Len(b.content) <= 10000
         /\ \E i \in Dones : events[i].id = b.tool_use_id
    /\ \A i \in Dones :
         LET r == events[i].result
         IN  /\ StoredFor(events[i].id) # {}
             /\ \A b \in StoredFor(events[i].id) :
                  IF Len(r) <= 10000
                  THEN b.content = r
                  ELSE /\ Len(b.content) = 10000
                       /\ b.content = SubSeq(r, 1, 10000)

\* a result of LongLen characters was cut and one of exactly 10,000 was not
C5_Witness ==
    /\ \E i \in Dones :
         /\ Len(events[i].result) = LongLen
         /\ \E b \in StoredFor(events[i].id) : Len(b.content) = 10000
    /\ \E i \in Dones :
         /\ Len(events[i].result) = 10000
         /\ \E b \in StoredFor(events[i].id) : b.content = events[i].result


(***************************************************************************)
(* C6: the history only grows.  Every step of the session leaves the       *)
(* messages it held in place and unchanged, and adds new ones at the end   *)
(* only: nothing is removed, reordered, rewritten, summarised or cut to a  *)
(* window.                                                                 *)
(***************************************************************************)
C6_HistoryAppendOnly == [][IsPrefix(messages, messages')]_vars

\* a second turn is under way after a turn with a tool round: five messages
\* have been appended one after the other
C6_Witness ==
    /\ Len(messages) >= 5
    /\ Count(events, "turn") >= 2
    /\ \E i \in 1..Len(messages) :
         IsBlockMessage(messages[i]) /\ messages[i].role = "user"

(***************************************************************************)
(* C7: a transport answer whose status is not 200 ends the session at      *)
(* once with exit status 1: it is the last thing that happens (no retry,   *)
(* no tool execution, no further call, no further input), nothing is       *)
(* appended to the history for it, and nothing is left running.  Exit      *)
(* status 1 is reached in no other way.                                    *)
(***************************************************************************)
C7_FatalStatusEndsSession ==
    /\ \A i \in 1..Len(events) :
         (events[i].ev = "response" /\ events[i].status_code # 200) =>
           /\ i = Len(events)
           /\ i > 1 /\ events[i - 1].ev = "call"
           /\ pc = "exit1"
           /\ fault = "none"
           /\ running = {}
           /\ messages # <<>> /\ Last(messages).role = "user"
    /\ Cardinality({i \in 1..Len(messages) : messages[i].role = "assistant"})
         = Cardinality({i \in 1..Len(events) : IsReply(events[i])})
    /\ pc = "exit1" =>
         /\ events # <<>>
         /\ Last(events).ev = "response"
         /\ Last(events).status_code # 200

\* the answer to the call that carried tool results was not a 200
C7_Witness ==
    /\ pc = "exit1"
    /\ IsBlockMessage(Last(messages))
    /\ Last(events).status_code = 429

(***************************************************************************)
(* C8: a command that reaches the timeout does not hang or end the loop:   *)
(* the TimeoutExpired exception never leaves execute_tool, the call        *)
(* returns the string "Error: Command '<cmd>' timed out after 60 seconds", *)
(* that string is stored as the tool_result of the request, and the loop   *)
(* goes on to the remaining tool requests and to the next transport call.  *)
(***************************************************************************)
C8_TimeoutBecomesResult ==
    /\ fault # "TimeoutExpired"
    /\ \A i \in Dones :
         events[i].host.kind = "timeout" =>
           LET d == events[i]
               x == events[i - 1]
           IN  /\ x.ev = "exec" /\ x.tool.id = d.id
               /\ x.tool.name = RunCommandName
               /\ d.caught = "TimeoutExpired"
               /\ IsPrefix(ErrorPrefix \o <<"C", "o", "m", "m", "a", "n", "d", " ", "'">>
                             \o x.tool.input.command, d.result)
               /\ \E b \in StoredFor(d.id) : b.content = d.result
               /\ i < Len(events)
               /\ events[i + 1].ev \in {"exec", "call"}
               /\ events[i + 1].ev = "exec" => events[i + 1].tool.id = d.id + 1

\* the first command of a reply timed out, the second was run and the next
\* transport call was made
C8_Witness ==
    \E i \in Dones :
        /\ events[i].host.kind = "timeout"
        /\ i + 3 <= Len(events)
        /\ events[i + 1].ev = "exec"
        /\ events[i + 2].ev = "done"
        /\ events[i + 3].ev = "call"

(***************************************************************************)
(* C9: at most one blocking operation is outstanding at any time: while a  *)
(* transport call is outstanding no tool runs, while a tool runs no        *)
(* transport call and no other tool is outstanding, and otherwise nothing  *)
(* is outstanding.  A tool execution has finished before the next starts.  *)
(***************************************************************************)
C9_OneBlockingOperation ==
    /\ Cardinality(running) <= 1
    /\ pc = "call" => running = {[op |-> "transport"]}
    /\ pc = "tool" =>
         /\ Len(tool_results) < Len(tool_calls)
         /\ running = {[op |-> "tool", id |-> tool_calls[Len(tool_results) + 1].id]}
    /\ pc \notin {"call", "tool"} => running = {}
    /\ \A i \in 1..Len(events) :
         (events[i].ev = "exec" /\ i < Len(events)) =>
           events[i + 1].ev = "done" /\ events[i + 1].id = events[i].tool.id

\* the second tool of a reply is running, the first has finished
C9_Witness ==
    /\ pc = "tool"
    /\ Len(tool_calls) = 2
    /\ Len(tool_results) = 1
    /\ Cardinality(running) = 1


(***************************************************************************)
(* The successful file operations of the session, read off the events.     *)
(***************************************************************************)
Succeeded(i, name) ==
    /\ i < Len(events)
    /\ events[i].ev = "exec"
    /\ events[i].tool.name = name
    /\ events[i + 1].ev = "done"
    /\ events[i + 1].caught = "none"

WroteAt(i) == Succeeded(i, WriteFileName)

ReadAt(j) == Succeeded(j, ReadFileName)

(***************************************************************************)
(* C10: round trip.  Whenever a write_file succeeded and a later read_file *)
(* of the same path succeeded with no successful write_file to that path   *)
(* in between, the read returned exactly the content handed to that write  *)
(* (so after two writes the content of the later one).                     *)
(***************************************************************************)
C10_ReadReturnsWritten ==
    \A i, j \in 1..Len(events) :
        ( /\ i < j
          /\ WroteAt(i)
          /\ ReadAt(j)
          /\ events[i].tool.input.path = events[j].tool.input.path
          /\ \A k \in (i + 1)..(j - 1) :
               ~(WroteAt(k) /\ events[k].tool.input.path = events[i].tool.input.path) )
        => events[j + 1].result = events[i].tool.input.content

\* a round trip of content without carriage returns: the read returned the
\* written content
C10_Witness ==
    \E i, j \in 1..Len(events) :
        /\ i < j
        /\ WroteAt(i)
        /\ ReadAt(j)
        /\ events[i].tool.input.path = events[j].tool.input.path
        /\ events[i].tool.input.content = PlainContent
        /\ events[j + 1].result = PlainContent


(***************************************************************************)
(* The tool execute_tool is running while pc = "tool", and what the claims *)
(* about single tools look for in its result.                              *)
(***************************************************************************)
Current == tool_calls[Len(tool_results) + 1]

Contains(word, s) ==
    \E k \in 1..(Len(s) - Len(word) + 1) : SubSeq(s, k, k + Len(word) - 1) = word

LacksPath(t) ==
    /\ t.name \in {ReadFileName, WriteFileName}
    /\ "path" \notin DOMAIN t.input

ExecsOf(name) ==
    {i \in 1..(Len(events) - 1) :
        events[i].ev = "exec" /\ events[i].tool.name = name
            /\ events[i + 1].ev = "done"}

(***************************************************************************)
(* C11: when execute_tool runs a read_file or write_file request whose     *)
(* input has no path key, it returns (no exception ends the process, the   *)
(* loop goes on to the next tool or the next call), the string it returns  *)
(* contains the word "Error", and the files and directories of the host    *)
(* are what they were before.                                              *)
(***************************************************************************)
C11_MissingPathIsError ==
    [][ (pc = "tool" /\ LacksPath(Current)) =>
          /\ files' = files
          /\ dirs' = dirs
          /\ fault' = "none"
          /\ pc' \in {"tool", "call"}
          /\ Len(tool_results') = Len(tool_results) + 1
          /\ Last(tool_results').tool_use_id = Current.id
          /\ Contains(<<"E", "r", "r", "o", "r">>, Last(tool_results').content)
      ]_vars

\* a read_file and a write_file without path were both answered
C11_Witness ==
    /\ pc = "call"
    /\ \E i \in ExecsOf(ReadFileName) : LacksPath(events[i].tool)
    /\ \E i \in ExecsOf(WriteFileName) : LacksPath(events[i].tool)


(***************************************************************************)
(* Names that are not in the registry, and inputs and host behaviours a    *)
(* request under such a name may meet.                                     *)
(***************************************************************************)
UnknownNames ==
    {<<"f", "e", "t", "c", "h">>, <<>>, <<"b", "a", "s", "h">>,
     <<"R", "u", "n", "_", "c", "o", "m", "m", "a", "n", "d">>,
     <<"r", "e", "a", "d", "_", "f", "i", "l", "e", " ">>}

SomeInputs ==
    {[k \in {} |-> <<>>], [command |-> <<"l", "s">>],
     [path |-> <<"~", "/", "d", "/", "f">>, content |-> <<"h", "i">>]}

SomeHosts ==
    {[kind |-> "ok"], [kind |-> "denied"], [kind |-> "timeout"],
     [kind |-> "completed", stdout |-> <<"o">>, stderr |-> <<>>, returncode |-> 0]}

(***************************************************************************)
(* C12: for a name other than run_command, read_file and write_file,       *)
(* execute_tool returns "Unknown tool: <name>" whatever the input and      *)
(* whatever the host would do, and leaves files and directories alone.     *)
(* When the loop runs such a request it stores exactly that string as the  *)
(* tool_result of the request and goes on to the next tool or the next     *)
(* transport call.                                                         *)
(***************************************************************************)
C12_UnknownToolIsAnswered ==
    [][ (pc = "tool"
           /\ Current.name \notin {<<"r", "u", "n", "_", "c", "o", "m", "m", "a", "n", "d">>,
                                   <<"r", "e", "a", "d", "_", "f", "i", "l", "e">>,
                                   <<"w", "r", "i", "t", "e", "_", "f", "i", "l", "e">>}) =>
          /\ files' = files
          /\ dirs' = dirs
          /\ fault' = "none"
          /\ pc' \in {"tool", "call"}
          /\ tool_results' =
               Append(tool_results,
                      [type |-> "tool_result", tool_use_id |-> Current.id,
                       content |-> <<"U", "n", "k", "n", "o", "w", "n", " ",
                                     "t", "o", "o", "l", ":", " ">> \o Current.name])
          /\ \A name \in UnknownNames, input \in SomeInputs, env \in SomeHosts :
               LET r == execute_tool(name, input, env, files, dirs)
               IN  /\ r.raised = "none"
                   /\ r.value = <<"U", "n", "k", "n", "o", "w", "n", " ",
                                  "t", "o", "o", "l", ":", " ">> \o name
                   /\ r.files = files
                   /\ r.dirs = dirs
      ]_vars

\* a request under an unknown name was answered and the next transport call
\* carries its tool_result
C12_Witness ==
    /\ pc = "call"
    /\ \E i \in ExecsOf(FetchName) :
         \E b \in StoredFor(events[i].tool.id) :
             b.content = UnknownToolPrefix \o FetchName


(***************************************************************************)
(* The exit statuses of the host's commands written in decimal.            *)
(***************************************************************************)
ExitDigits(n) ==
    CASE n = 1 -> <<"1">>
      [] n = 2 -> <<"2">>
      [] n = 127 -> <<"1", "2", "7">>

(***************************************************************************)
(* C13: the result of every completed run_command is the captured          *)
(* standard output, then "\nSTDERR: " and the standard error when that is  *)
(* not empty, then "\n[exit code: n]" when the exit status n is not zero;  *)
(* when all of that is empty the result is "(no output)".  No run_command  *)
(* call returns the empty string.                                          *)
(***************************************************************************)
C13_CommandResultFormat ==
    \A i \in ExecsOf(<<"r", "u", "n", "_", "c", "o", "m", "m", "a", "n", "d">>) :
        LET d == events[i + 1]
            h == d.host
        IN  /\ d.result # <<>>
            /\ h.kind = "completed" =>
                 LET err == IF h.stderr # <<>>
                            THEN <<"\n", "S", "T", "D", "E", "R", "R", ":", " ">>
                                     \o h.stderr
                            ELSE <<>>
                     code == IF h.returncode # 0
                             THEN <<"\n", "[", "e", "x", "i", "t", " ",
                                    "c", "o", "d", "e", ":", " ">>
                                      \o ExitDigits(h.returncode) \o <<"]">>
                             ELSE <<>>
                     all == h.stdout \o err \o code
                 IN  d.result = IF all = <<>>
                                THEN <<"(", "n", "o", " ", "o", "u", "t", "p", "u", "t", ")">>
                                ELSE all

\* one command printed to both streams and left status 2, another printed
\* nothing and left status 0
C13_Witness ==
    /\ \E i \in Dones :
         /\ events[i].host = Completed(<<"o">>, <<"e">>, 2)
         /\ Len(events[i].result) > 2
    /\ \E i \in Dones :
         /\ events[i].host = Completed(<<>>, <<>>, 0)
         /\ events[i].result = NoOutputText


(***************************************************************************)
(* C14: every successful write_file returns "Wrote <n> bytes to <path>"    *)
(* where n is the number of bytes of the written content and <path> the    *)
(* path with the home shorthand expanded; afterwards every missing parent  *)
(* directory of the target exists, and the target holds exactly the given  *)
(* content (until a later write to the same path replaces it).             *)
(***************************************************************************)
C14_WriteConfirmation ==
    \A i \in ExecsOf(WriteFileName) :
        WroteAt(i) =>
          LET t == events[i].tool
              target == expanduser(t.input.path)
          IN  /\ events[i + 1].result =
                   <<"W", "r", "o", "t", "e", " ">>
                     \o Decimal(Utf8Bytes(t.input.content))
                     \o <<" ", "b", "y", "t", "e", "s", " ", "t", "o", " ">>
                     \o target
              /\ Ancestors(Parent(target)) \subseteq dirs
              /\ (\A k \in (i + 1)..Len(events) :
                     ~(WroteAt(k) /\ events[k].tool.input.path = t.input.path))
                   => /\ target \in DOMAIN files
                      /\ files[target] = t.input.content

\* a write of ASCII content under a directory that did not exist: two
\* bytes reported, the home shorthand expanded, the directory made
C14_Witness ==
    \E i \in ExecsOf(WriteFileName) :
        /\ WroteAt(i)
        /\ events[i].tool.input.content = PlainContent
        /\ events[i + 1].result =
             <<"W", "r", "o", "t", "e", " ", "2", " ", "b", "y", "t", "e", "s",
               " ", "t", "o", " ", "/", "h", "/", "d", "/", "f">>
        /\ <<"/", "h", "/", "d">> \in dirs
        /\ files[<<"/", "h", "/", "d", "/", "f">>] = PlainContent


(***************************************************************************)
(* C15: a keyboard interrupt or end of input at the read step ends the     *)
(* session cleanly.  The step in which input() is interrupted starts at    *)
(* the prompt and ends the session with exit status 0 and no exception;    *)
(* it appends nothing to the history, posts no request, runs no tool and   *)
(* leaves nothing running; and nothing happens after the session ended.   *)
(***************************************************************************)
C15_InterruptAtPromptEndsCleanly ==
    [][ /\ pc # "exit0"
        /\ read' \in {"EOFError", "KeyboardInterrupt"} =>
             /\ pc = "input"
             /\ pc' = "exit0"
             /\ fault' = "none"
             /\ running' = {}
             /\ UNCHANGED <<messages, events, request, tool_results, files, dirs>>
      ]_vars

\* the operator pressed Ctrl-C at the prompt after a turn with a tool round
C15_Witness ==
    /\ pc = "exit0"
    /\ read = "KeyboardInterrupt"
    /\ Count(events, "done") >= 1
    /\ Last(messages).role = "assistant"


(***************************************************************************)
(* C16: there is no cancellation in the middle of an operation.  No        *)
(* keyboard interrupt ends the process while a command or a transport call *)
(* is in flight: every execute_tool call that started has returned its     *)
(* result, from which the tool_result of the request is made, or is still  *)
(* running, and every transport call that started has been answered or is  *)
(* still outstanding.                                                      *)
(***************************************************************************)
C16_NoMidOperationCancellation ==
    /\ fault # "KeyboardInterrupt"
    /\ \A i \in 1..Len(events) :
         /\ events[i].ev = "exec" =>
              IF i < Len(events)
              THEN /\ events[i + 1].ev = "done"
                   /\ events[i + 1].id = events[i].tool.id
                   /\ StoredFor(events[i].tool.id) # {}
              ELSE pc = "tool"
         /\ events[i].ev = "call" =>
              IF i < Len(events)
              THEN events[i + 1].ev = "response"
              ELSE pc = "call"

\* a command that nobody interrupted ended by its own timeout and the turn
\* went on
C16_Witness ==
    /\ pc \in {"call", "input"}
    /\ fault = "none"
    /\ \E i \in Dones :
         /\ events[i].host.kind = "timeout"
         /\ StoredFor(events[i].id) # {}


(***************************************************************************)
(* C17: a turn ends exactly on a reply without tool requests.  The loop    *)
(* goes back to the prompt only from a transport call whose reply holds no *)
(* tool_use block, and then that reply is the assistant message appended   *)
(* last; a reply without tool requests always ends the turn; a reply with  *)
(* tool requests never does, however many rounds the turn has had: the     *)
(* loop starts the first of its tools.  And when every transport call and  *)
(* tool execution returns, a turn in progress leads to the prompt, unless  *)
(* a fatal status or an exception ends the session.                        *)
(***************************************************************************)
C17_TurnEndsOnToolFreeReply ==
    /\ [][ /\ (pc \in {"call", "tool"} /\ pc' = "input") =>
                /\ pc = "call"
                /\ Len(events') = Len(events) + 1
                /\ IsFinalReply(Last(events'))
                /\ messages' = Append(messages,
                                      [role |-> "assistant",
                                       blocks |-> Last(events').json.content])
           /\ (pc = "call" /\ Len(events') > Len(events)
                  /\ IsReply(events'[Len(events) + 1])) =>
                IF UsesIn(events'[Len(events) + 1].json.content) = <<>>
                THEN pc' = "input"
                ELSE /\ pc' = "tool"
                     /\ Last(events') =
                          [ev |-> "exec",
                           tool |-> UsesIn(events'[Len(events) + 1].json.content)[1]]
         ]_vars
    /\ (pc \in {"call", "tool"}) ~> (pc \in {"input", "exit1", "uncaught"})

\* a turn of three transport calls, two of them answered with tool
\* requests, is over and the loop is back at the prompt
C17_Witness ==
    /\ pc = "input"
    /\ Count(events, "turn") = 1
    /\ Count(events, "call") = 3
    /\ Last(messages).role = "assistant"


(***************************************************************************)
(* C18: every transport call sends the whole history with the same system  *)
(* prompt and the same tool registry.  Whenever a call starts, the request *)
(* holds every message appended so far, in order; it holds the system      *)
(* prompt and the three tools of the registry; and from one request to the *)
(* next the prompt and the registry are the same and the messages of the   *)
(* earlier request are a prefix of those of the later one.                 *)
(***************************************************************************)
C18_WholeHistorySent ==
    [][ /\ (pc' = "call" /\ events' # events) =>
              /\ request'.messages = messages'
              /\ request'.system = system_prompt
              /\ request'.tools =
                   << <<"r", "u", "n", "_", "c", "o", "m", "m", "a", "n", "d">>,
                      <<"r", "e", "a", "d", "_", "f", "i", "l", "e">>,
                      <<"w", "r", "i", "t", "e", "_", "f", "i", "l", "e">> >>
        /\ request' # request =>
              /\ pc' = "call"
              /\ Last(events').ev = "call"
              /\ DOMAIN request # {} =>
                   /\ request'.system = request.system
                   /\ request'.tools = request.tools
                   /\ request'.model = request.model
                   /\ IsPrefix(request.messages, request'.messages)
                   /\ Len(request'.messages) > Len(request.messages)
      ]_vars

\* the third call of a session is outstanding: its request holds all five
\* messages of the history
C18_Witness ==
    /\ pc = "call"
    /\ Count(events, "call") = 3
    /\ Len(messages) = 5
    /\ request.messages = messages


(***************************************************************************)
(* C19: the roles of the history alternate, starting with user: the odd    *)
(* messages are user messages and the even ones assistant messages.  While *)
(* a transport call is outstanding the last message is a user message (the *)
(* operator's text or a list of tool results), and so is the last message  *)
(* of every request posted; while the loop waits at the prompt the history *)
(* is empty or ends with an assistant message.                             *)
(***************************************************************************)
C19_RolesAlternate ==
    /\ \A i \in 1..Len(messages) :
         messages[i].role = IF i % 2 = 1 THEN "user" ELSE "assistant"
    /\ pc = "call" =>
         /\ messages # <<>>
         /\ Last(messages).role = "user"
    /\ DOMAIN request # {} =>
         /\ request.messages # <<>>
         /\ Last(request.messages).role = "user"
    /\ pc = "input" =>
         \/ messages = <<>>
         \/ Last(messages).role = "assistant"

\* a call that carries tool results is outstanding in the second turn
C19_Witness ==
    /\ pc = "call"
    /\ Count(events, "turn") = 2
    /\ IsBlockMessage(Last(messages))
    /\ Last(messages).role = "user"
    /\ ~IsBlockMessage(messages[Len(messages) - 2])


(***************************************************************************)
(* The spellings of the exit words in any letter case, and blank text.     *)
(***************************************************************************)
Capital(c) ==
    CASE c = "e" -> "E" [] c = "x" -> "X" [] c = "i" -> "I" [] c = "t" -> "T"
      [] c = "q" -> "Q" [] c = "u" -> "U"

SpellsExit(text) ==
    \E w \in {<<"e", "x", "i", "t">>, <<"q", "u", "i", "t">>, <<"q">>} :
        /\ Len(text) = Len(w)
        /\ \A k \in 1..Len(w) : text[k] \in {w[k], Capital(w[k])}

IsBlank(c) == c \in {" ", "\t", "\n", "\r"}

(***************************************************************************)
(* C20: a line that is empty or only whitespace, and the words exit, quit  *)
(* and q in any letter case, never reach the model.  In the step that      *)
(* reads such a line nothing is appended to the history, no request is     *)
(* posted and no tool runs; the empty line leaves the loop at the prompt   *)
(* and an exit word ends the session.  Every line that does start a call   *)
(* is stripped text with a visible character that spells no exit word, and *)
(* so is every text message of the history.                                *)
(***************************************************************************)
C20_BlankAndExitStayLocal ==
    [][ (pc = "input" /\ read' = "line") =>
          /\ (user_input' = <<>> \/ SpellsExit(user_input')) =>
               /\ pc' = IF user_input' = <<>> THEN "input" ELSE "exit0"
               /\ fault' = "none"
               /\ running' = {}
               /\ UNCHANGED <<messages, events, request, tool_calls,
                              tool_results, files, dirs>>
          /\ pc' # "call" => (user_input' = <<>> \/ SpellsExit(user_input'))
          /\ pc' = "call" =>
               /\ user_input' # <<>>
               /\ ~IsBlank(user_input'[1])
               /\ ~IsBlank(user_input'[Len(user_input')])
               /\ ~SpellsExit(user_input')
               /\ messages' = Append(messages,
                                     [role |-> "user", text |-> user_input'])
          /\ \A i \in 1..Len(messages') :
               "text" \in DOMAIN messages'[i] =>
                 /\ messages'[i].text # <<>>
                 /\ \E k \in 1..Len(messages'[i].text) : ~IsBlank(messages'[i].text[k])
                 /\ ~SpellsExit(messages'[i].text)
      ]_vars

\* after one turn the operator typed " Q": the session ended with the
\* history of that turn and its single call
C20_Witness ==
    /\ pc = "exit0"
    /\ read = "line"
    /\ user_input = <<"Q">>
    /\ Len(messages) = 2
    /\ Count(events, "call") = 1

====
